---- MODULE Spec2Model ----
(***************************************************************************)
(* Model of the checklist aggregation and the deal stage / substage        *)
(* classification of fm-sync (processor package, checklist-stages).        *)
(*                                                                         *)
(* A nullable value (string | null) is a tuple: <<>> is null and <<s>> is   *)
(* the string s.  Strings are TLA+ strings; trim, toLowerCase, includes    *)
(* and parseInt are computed character by character.                       *)
(***************************************************************************)
EXTENDS Integers, Sequences, FiniteSets, TLC

\* The batch computation and the classifiers.
VARIABLES rows, i, byUser, pc, result, deal, verdict

\* A poller process: the .running file, the clock, the invocations of poll.
VARIABLES runningFile, now, polls

stageVars == <<rows, i, byUser, pc, result, deal, verdict>>

\* blackbaud-client: the token cache, the refresh in progress, the refresh
\* requests made so far, the callers of getAccessToken.
VARIABLES cachedToken, refreshInProgress, refreshes, callers

\* Blackbaud poll body: withLimit's counter and queue, the store callers.
VARIABLES inFlight, waitQueue, workers

\* HubSpot poll body: fetchDealsSearch's locals, the requests it sent, the
\* pages it read and how it ended.
VARIABLES fpc, after, retry, all, modifiedAfter, requests, pagesRead, outcome

lockVars == <<runningFile, now, polls>>

tokenVars == <<cachedToken, refreshInProgress, refreshes, callers>>

limitVars == <<inFlight, waitQueue, workers>>

fetchVars == <<fpc, after, retry, all, modifiedAfter, requests, pagesRead, outcome>>

pollerVars == <<lockVars, tokenVars, limitVars, fetchVars>>

vars == <<stageVars, pollerVars>>

(***************************************************************************)
(* Bounds                                                                  *)
(***************************************************************************)
MaxRows == 3

MaxItems == 2

\* Invocations of poll by the scheduler, and ticks of the clock.
MaxPolls == 3

MaxTime == 4

\* Callers of getAccessToken, and refresh requests sent to the token endpoint.
MaxCallers == 3

MaxRefreshes == 3

\* Concurrent callers of storeRows.
MaxWorkers == 4

\* Pages the search API serves, and deals on one page.
MaxFetchPages == 3
MaxResults == 2

(***************************************************************************)
(* Nullable values and JavaScript string primitives                        *)
(***************************************************************************)
NULL == <<>>

Some(s) == <<s>>

\* JavaScript truthiness of a string | null value: null and '' are falsy.
jsTruthy(x) == x # NULL /\ x[1] # ""

IsSpace(c) == c \in {" ", "\t", "\n", "\r"}

RECURSIVE trimStart(_)
trimStart(s) ==
  IF Len(s) > 0 /\ IsSpace(SubSeq(s, 1, 1))
  THEN trimStart(SubSeq(s, 2, Len(s)))
  ELSE s

RECURSIVE trimEnd(_)
trimEnd(s) ==
  IF Len(s) > 0 /\ IsSpace(SubSeq(s, Len(s), Len(s)))
  THEN trimEnd(SubSeq(s, 1, Len(s) - 1))
  ELSE s

trim(s) == trimEnd(trimStart(s))

UpperChars == "ABCDEFGHIJKLMNOPQRSTUVWXYZ"

LowerChars == "abcdefghijklmnopqrstuvwxyz"

lowerChar(c) ==
  IF \E k \in 1..Len(UpperChars) : SubSeq(UpperChars, k, k) = c
  THEN LET k == CHOOSE k \in 1..Len(UpperChars) : SubSeq(UpperChars, k, k) = c
       IN  SubSeq(LowerChars, k, k)
  ELSE c

RECURSIVE toLowerCase(_)
toLowerCase(s) ==
  IF Len(s) = 0 THEN ""
  ELSE lowerChar(SubSeq(s, 1, 1)) \o toLowerCase(SubSeq(s, 2, Len(s)))

\* String.prototype.includes: sub occurs in s as a contiguous substring.
includes(s, sub) ==
  \E k \in 1..(Len(s) - Len(sub) + 1) : SubSeq(s, k, k + Len(sub) - 1) = sub

Digits == "0123456789"

IsDigit(c) == \E k \in 1..Len(Digits) : SubSeq(Digits, k, k) = c

digitValue(c) == (CHOOSE k \in 1..Len(Digits) : SubSeq(Digits, k, k) = c) - 1

RECURSIVE parseDigits(_, _)
parseDigits(s, acc) ==
  IF Len(s) > 0 /\ IsDigit(SubSeq(s, 1, 1))
  THEN parseDigits(SubSeq(s, 2, Len(s)), 10 * acc + digitValue(SubSeq(s, 1, 1)))
  ELSE acc

\* parseInt(str, 10): leading whitespace is skipped, an optional sign is
\* read, then the longest run of digits; NaN (here NULL) when there is none.
parseInt(str) ==
  LET t    == trimStart(str)
      neg  == Len(t) > 0 /\ SubSeq(t, 1, 1) = "-"
      sgn  == Len(t) > 0 /\ SubSeq(t, 1, 1) \in {"-", "+"}
      body == IF sgn THEN SubSeq(t, 2, Len(t)) ELSE t
  IN  IF Len(body) > 0 /\ IsDigit(SubSeq(body, 1, 1))
      THEN Some(IF neg THEN 0 - parseDigits(body, 0) ELSE parseDigits(body, 0))
      ELSE NULL

(***************************************************************************)
(* checklist-stages: constants and helpers                                 *)
(***************************************************************************)
APPLICATION_FORM == "Application Form"

DECISION == "Decision"

ENROLLMENT_CONTRACT_RECEIVED == "Enrollment Contract Received"

FAIRMONT_ADMISSIONS_ASSESSMENT == "Fairmont Admissions Assessment"

FAIRMONT_ADMISSIONS_RE_ASSESSMENT == "Fairmont Admissions Re-Assessment"

normalize(s) == IF s = NULL THEN "" ELSE trim(s[1])

truthy(s) ==
  IF s = NULL \/ s = Some("") THEN FALSE
  ELSE LET t == toLowerCase(trim(s[1]))
       IN  t = "true" \/ t = "yes" \/ t = "1" \/ Len(t) > 0

\* user_id: number | string | null, as [kind, num] / [kind, str] / [kind].
NullId == [kind |-> "null"]

NumId(n) == [kind |-> "number", num |-> n]

StrId(s) == [kind |-> "string", str |-> s]

\* Only ids that already are numbers are accepted; string ids are dropped.
toUserId_numbersOnly(val) ==
  IF val.kind = "number" THEN Some(val.num) ELSE NULL

\* An unparseable id read as 0 instead of null.
toUserId_nanIsZero(val) ==
  IF val.kind = "null" THEN NULL
  ELSE IF val.kind = "number" THEN Some(val.num)
  ELSE IF parseInt(val.str) = NULL THEN Some(0) ELSE parseInt(val.str)

toUserId(val) ==
  IF val.kind = "null" THEN NULL
  ELSE IF val.kind = "number" THEN Some(val.num)
  ELSE parseInt(val.str)

(***************************************************************************)
(* ChecklistRowForStage: the rows handed to the aggregation                *)
(***************************************************************************)
BlankRow(uid) ==
  [ user_id                |-> uid,
    checklist_name         |-> NULL,
    checklist_item         |-> NULL,
    date_completed         |-> NULL,
    date_requested         |-> NULL,
    step_status            |-> NULL,
    candidate_decision     |-> NULL,
    school_decision        |-> NULL,
    inactive               |-> NULL,
    contract_publish_date  |-> NULL,
    contract_return_date   |-> NULL,
    contract_dep_rec_date  |-> NULL,
    test_no_show           |-> NULL,
    test_short_description |-> NULL ]

\* Rows of user 1 (numeric id, or a string that parseInt reads as 1).
RowsOfUser1 ==
  { [BlankRow(NumId(1)) EXCEPT
       !.checklist_name = Some(APPLICATION_FORM),
       !.date_completed = Some("2024-01-05")],
    [BlankRow(NumId(1)) EXCEPT
       !.checklist_item = Some(" Fairmont Admissions Assessment "),
       !.date_requested = Some("2024-02-01"),
       !.school_decision = Some("Accepted")],
    [BlankRow(NumId(1)) EXCEPT
       !.checklist_item = Some(FAIRMONT_ADMISSIONS_ASSESSMENT),
       !.date_requested = Some("2024-02-01"),
       !.step_status = Some(" Waived "),
       !.contract_return_date = Some("2024-03-02")],
    [BlankRow(NumId(1)) EXCEPT
       !.checklist_name = Some(ENROLLMENT_CONTRACT_RECEIVED),
       !.checklist_item = Some("Contract"),
       !.date_completed = Some("2024-03-01"),
       !.candidate_decision = Some("I Decline")],
    [BlankRow(NumId(1)) EXCEPT
       !.inactive = Some("true")],
    [BlankRow(NumId(1)) EXCEPT
       !.checklist_item = Some(DECISION),
       !.step_status = Some("Completed"),
       !.inactive = Some("false"),
       !.test_no_show = Some("0"),
       !.test_short_description = Some(FAIRMONT_ADMISSIONS_RE_ASSESSMENT)],
    [BlankRow(NumId(1)) EXCEPT
       !.checklist_item = Some(FAIRMONT_ADMISSIONS_ASSESSMENT),
       !.date_completed = Some(""),
       !.step_status = Some("Pending"),
       !.candidate_decision = Some(""),
       !.inactive = Some(" "),
       !.contract_publish_date = Some("2024-02-20")],
    [BlankRow(NumId(1)) EXCEPT
       !.checklist_item = Some(FAIRMONT_ADMISSIONS_RE_ASSESSMENT),
       !.date_requested = Some("2024-02-10"),
       !.school_decision = Some("Waitlist"),
       !.contract_dep_rec_date = Some("2024-03-05"),
       !.test_no_show = Some("true")],
    [BlankRow(NumId(1)) EXCEPT
       !.checklist_name = Some(""),
       !.checklist_item = Some("  "),
       !.date_completed = Some("2024-01-09"),
       !.date_requested = Some("2024-01-08"),
       !.contract_publish_date = Some(""),
       !.contract_return_date = Some("")],
    [BlankRow(StrId("1x")) EXCEPT
       !.checklist_name = Some(" Decision "),
       !.checklist_item = Some(FAIRMONT_ADMISSIONS_RE_ASSESSMENT),
       !.date_completed = Some("2024-02-15"),
       !.candidate_decision = Some("I Accept"),
       !.test_short_description = Some("")] }

\* Rows of user 2 (pg returns a BIGINT id as a string).
RowsOfUser2 ==
  { [BlankRow(StrId("2")) EXCEPT
       !.checklist_item = Some(APPLICATION_FORM),
       !.date_completed = Some("2024-01-07")],
    [BlankRow(StrId(" 2")) EXCEPT
       !.checklist_item = Some(APPLICATION_FORM),
       !.date_requested = Some("2024-01-06"),
       !.inactive = Some("No")],
    [BlankRow(NumId(2)) EXCEPT
       !.school_decision = Some("Denied"),
       !.test_no_show = Some("2024-02-03"),
       !.test_short_description = Some(FAIRMONT_ADMISSIONS_ASSESSMENT)] }

\* Rows of user 3: the assessment requested, the assessment completed, and
\* an item whose name contains the assessment's name.
RowsOfUser3 ==
  { [BlankRow(NumId(3)) EXCEPT
       !.checklist_item = Some(FAIRMONT_ADMISSIONS_ASSESSMENT),
       !.date_requested = Some("2024-02-01")],
    [BlankRow(NumId(3)) EXCEPT
       !.checklist_item = Some(FAIRMONT_ADMISSIONS_ASSESSMENT),
       !.date_completed = Some("2024-02-08")],
    [BlankRow(NumId(3)) EXCEPT
       !.checklist_item = Some("Fairmont Admissions Assessment Fee"),
       !.date_requested = Some("2024-01-20")] }

\* Rows whose user_id is null or does not parse as a number.
RowsOfNobody ==
  { [BlankRow(NullId) EXCEPT
       !.checklist_name = Some(APPLICATION_FORM),
       !.date_completed = Some("2024-01-05"),
       !.inactive = Some("true")],
    [BlankRow(StrId("abc")) EXCEPT
       !.checklist_item = Some(ENROLLMENT_CONTRACT_RECEIVED),
       !.step_status = Some("Completed"),
       !.candidate_decision = Some("I Decline")],
    [BlankRow(StrId("")) EXCEPT
       !.school_decision = Some("Denied"),
       !.contract_publish_date = Some("2024-02-20")] }

RowPool == RowsOfUser1 \cup RowsOfUser2 \cup RowsOfUser3 \cup RowsOfNobody

RECURSIVE SeqsUpTo(_, _)
SeqsUpTo(S, n) ==
  IF n = 0 THEN { <<>> }
  ELSE LET shorter == SeqsUpTo(S, n - 1)
       IN  shorter \cup { Append(q, x) : q \in { p \in shorter : Len(p) = n - 1 }, x \in S }

(***************************************************************************)
(* aggregateChecklistRowsByUser: one iteration of the loop over the rows   *)
(***************************************************************************)
EmptyMap == [k \in {} |-> NULL]

has(map, key) == key \in DOMAIN map /\ map[key] = TRUE

setTrue(map, key) ==
  [k \in DOMAIN map \cup {key} |-> IF k = key THEN TRUE ELSE map[k]]

newDeal(uid, r) ==
  [ user_id               |-> uid,
    checklistsCompleted   |-> EmptyMap,
    itemStatus            |-> <<>>,
    testNoShow            |-> FALSE,
    testShortDescription  |-> r.test_short_description,
    candidate_decision    |-> r.candidate_decision,
    school_decision       |-> r.school_decision,
    inactive              |-> truthy(r.inactive),
    contract_publish_date |-> r.contract_publish_date,
    contract_return_date  |-> r.contract_return_date,
    contract_dep_rec_date |-> r.contract_dep_rec_date ]

\* r.step_status?.trim() || null
stepStatusOf(r) ==
  IF r.step_status = NULL THEN NULL
  ELSE LET t == trim(r.step_status[1]) IN IF t = "" THEN NULL ELSE Some(t)

\* Only date_completed counts; step_status is ignored.
countsAsComplete_dateOnly(r) == jsTruthy(r.date_completed)

countsAsComplete(r) ==
  \/ jsTruthy(r.date_completed)
  \/ stepStatusOf(r) = Some("Completed")
  \/ stepStatusOf(r) = Some("Waived")

markCompleted(map, name, r) ==
  IF name # "" /\ (jsTruthy(r.date_completed) \/ countsAsComplete(r))
  THEN setTrue(map, name)
  ELSE map

\* A row that is only requested gets no status.
statusOf_completeOnly(r) ==
  IF countsAsComplete(r) THEN Some("complete") ELSE NULL

\* 'complete' | 'requested' | null
statusOf(r) ==
  IF countsAsComplete(r) THEN Some("complete")
  ELSE IF jsTruthy(r.date_requested) THEN Some("requested")
  ELSE NULL

\* Every row with a status pushes an entry, whether the name is there or not.
upsertItemStatus_alwaysPush(items, itemName, status) ==
  IF itemName = "" \/ status = NULL THEN items
  ELSE Append(items, [name |-> itemName, status |-> status[1]])

\* An existing entry takes the status of the latest row.
upsertItemStatus_lastWins(items, itemName, status) ==
  IF itemName = "" \/ status = NULL THEN items
  ELSE IF ~ \E k \in 1..Len(items) : items[k].name = itemName
       THEN Append(items, [name |-> itemName, status |-> status[1]])
       ELSE LET k == CHOOSE k \in 1..Len(items) : items[k].name = itemName
            IN  [items EXCEPT ![k].status = status[1]]

upsertItemStatus(items, itemName, status) ==
  IF itemName = "" \/ status = NULL THEN items
  ELSE IF ~ \E k \in 1..Len(items) : items[k].name = itemName
       THEN Append(items, [name |-> itemName, status |-> status[1]])
       ELSE LET k == CHOOSE k \in 1..Len(items) :
                       /\ items[k].name = itemName
                       /\ \A j \in 1..(k - 1) : items[j].name # itemName
            IN  IF status = Some("complete")
                THEN [items EXCEPT ![k].status = "complete"]
                ELSE items

\* The field takes the row's value even when it is null.
overwriteIfNotNull_always(cur, val) == val

\* The field overwritten only by a non-empty value.
overwriteIfNotNull_truthy(cur, val) == IF jsTruthy(val) THEN val ELSE cur

\* if (r.f != null) deal.f = r.f
overwriteIfNotNull(cur, val) == IF val # NULL THEN val ELSE cur

\* inactive taken from the latest row instead of OR-ed.
orInactive_lastWins(cur, val) == IF val # NULL THEN truthy(val) ELSE cur

\* if (r.inactive != null) deal.inactive = deal.inactive || truthy(r.inactive)
orInactive(cur, val) == IF val # NULL THEN cur \/ truthy(val) ELSE cur

\* if (r.f) deal.f = r.f
overwriteIfTruthy(cur, val) == IF jsTruthy(val) THEN val ELSE cur

\* checklistsCompleted keyed by the checklist name only, not by the item name.
foldRowIntoDeal_checklistNameOnly(d, r) ==
  [ user_id               |-> d.user_id,
    checklistsCompleted   |->
      markCompleted(d.checklistsCompleted, normalize(r.checklist_name), r),
    itemStatus            |-> upsertItemStatus(d.itemStatus, normalize(r.checklist_item), statusOf(r)),
    testNoShow            |-> IF truthy(r.test_no_show) THEN TRUE ELSE d.testNoShow,
    testShortDescription  |-> overwriteIfTruthy(d.testShortDescription, r.test_short_description),
    candidate_decision    |-> overwriteIfNotNull(d.candidate_decision, r.candidate_decision),
    school_decision       |-> overwriteIfNotNull(d.school_decision, r.school_decision),
    inactive              |-> orInactive(d.inactive, r.inactive),
    contract_publish_date |-> overwriteIfNotNull(d.contract_publish_date, r.contract_publish_date),
    contract_return_date  |-> overwriteIfNotNull(d.contract_return_date, r.contract_return_date),
    contract_dep_rec_date |-> overwriteIfNotNull(d.contract_dep_rec_date, r.contract_dep_rec_date) ]

foldRowIntoDeal(d, r) ==
  [ user_id               |-> d.user_id,
    checklistsCompleted   |->
      markCompleted(markCompleted(d.checklistsCompleted, normalize(r.checklist_name), r),
                    normalize(r.checklist_item), r),
    itemStatus            |-> upsertItemStatus(d.itemStatus, normalize(r.checklist_item), statusOf(r)),
    testNoShow            |-> IF truthy(r.test_no_show) THEN TRUE ELSE d.testNoShow,
    testShortDescription  |-> overwriteIfTruthy(d.testShortDescription, r.test_short_description),
    candidate_decision    |-> overwriteIfNotNull(d.candidate_decision, r.candidate_decision),
    school_decision       |-> overwriteIfNotNull(d.school_decision, r.school_decision),
    inactive              |-> orInactive(d.inactive, r.inactive),
    contract_publish_date |-> overwriteIfNotNull(d.contract_publish_date, r.contract_publish_date),
    contract_return_date  |-> overwriteIfNotNull(d.contract_return_date, r.contract_return_date),
    contract_dep_rec_date |-> overwriteIfNotNull(d.contract_dep_rec_date, r.contract_dep_rec_date) ]

\* The row is folded into every view of the map, not only the person's own.
foldRow_everyView(map, r) ==
  LET uid == toUserId(r.user_id)
  IN  IF uid = NULL THEN map
      ELSE [u \in DOMAIN map \cup {uid[1]} |->
              foldRowIntoDeal(IF u \in DOMAIN map THEN map[u] ELSE newDeal(uid[1], r), r)]

\* The body of `for (const r of rows)`: map before the row -> map after it.
foldRow(map, r) ==
  LET uid == toUserId(r.user_id)
  IN  IF uid = NULL THEN map
      ELSE LET d == IF uid[1] \in DOMAIN map THEN map[uid[1]] ELSE newDeal(uid[1], r)
           IN  [u \in DOMAIN map \cup {uid[1]} |->
                  IF u = uid[1] THEN foldRowIntoDeal(d, r) ELSE map[u]]

RECURSIVE aggregateFrom(_, _)
aggregateFrom(map, rs) ==
  IF rs = <<>> THEN map ELSE aggregateFrom(foldRow(map, Head(rs)), Tail(rs))

aggregateChecklistRowsByUser(rs) == aggregateFrom(EmptyMap, rs)

(***************************************************************************)
(* Classification of one DealView                                          *)
(***************************************************************************)
\* The stage guards in the order of the if-chain of determineDealStage.
StageOrder == <<1, 2, 3, 4, 5, 6>>

stageOfGuard(g) ==
  CASE g = 1 -> "Closed Lost"
    [] g = 2 -> "Closed Lost"
    [] g = 3 -> "Closed Won"
    [] g = 4 -> "Contract Sent"
    [] g = 5 -> "Decision"
    [] g = 6 -> "Application"

\* Decisions compared after trimming, as normalize does.
guardHolds(g, d) ==
  CASE g = 1 -> d.inactive
    [] g = 2 -> \/ normalize(d.candidate_decision) = "I Decline"
                \/ normalize(d.school_decision) = "Denied"
    [] g = 3 -> has(d.checklistsCompleted, ENROLLMENT_CONTRACT_RECEIVED)
    [] g = 4 -> jsTruthy(d.contract_publish_date)
    [] g = 5 -> has(d.checklistsCompleted, DECISION)
    [] g = 6 -> has(d.checklistsCompleted, APPLICATION_FORM)
    [] OTHER -> FALSE

\* Decisions compared as given, without trimming.
guardHoldsUntrimmed(g, d) ==
  IF g = 2
  THEN d.candidate_decision = Some("I Decline") \/ d.school_decision = Some("Denied")
  ELSE guardHolds(g, d)

firstGuard(Holds(_, _), order, d) ==
  IF \E k \in 1..Len(order) : Holds(order[k], d)
  THEN LET k == CHOOSE k \in 1..Len(order) :
                  /\ Holds(order[k], d)
                  /\ \A j \in 1..(k - 1) : ~ Holds(order[j], d)
       IN  Some(stageOfGuard(order[k]))
  ELSE NULL

\* The Closed Won guard consulted before the decision guard.
determineDealStage_wonBeforeDecline(d) == firstGuard(guardHolds, <<1, 3, 2, 4, 5, 6>>, d)

\* The decisions compared as stored, without normalize.
determineDealStage_untrimmed(d) == firstGuard(guardHoldsUntrimmed, StageOrder, d)

\* A view no guard holds for is put in the first stage of the pipeline.
determineDealStage_defaultApplication(d) ==
  IF firstGuard(guardHolds, StageOrder, d) = NULL
  THEN Some("Application")
  ELSE firstGuard(guardHolds, StageOrder, d)

determineDealStage(d) ==
  IF d.inactive THEN Some("Closed Lost")
  ELSE IF normalize(d.candidate_decision) = "I Decline" \/ normalize(d.school_decision) = "Denied"
       THEN Some("Closed Lost")
  ELSE IF has(d.checklistsCompleted, ENROLLMENT_CONTRACT_RECEIVED) THEN Some("Closed Won")
  ELSE IF jsTruthy(d.contract_publish_date) THEN Some("Contract Sent")
  ELSE IF has(d.checklistsCompleted, DECISION) THEN Some("Decision")
  ELSE IF has(d.checklistsCompleted, APPLICATION_FORM) THEN Some("Application")
  ELSE NULL

\* deal.itemStatus.find(x => x.name === name || x.name.includes(name) || name.includes(x.name))
itemMatches(x, name) == x.name = name \/ includes(x.name, name) \/ includes(name, x.name)

\* An entry of exactly the name is preferred to an earlier fuzzy match.
itemStatus_exactFirst(d, name) ==
  IF \E k \in 1..Len(d.itemStatus) : d.itemStatus[k].name = name
  THEN LET k == CHOOSE k \in 1..Len(d.itemStatus) : d.itemStatus[k].name = name
       IN  Some(d.itemStatus[k].status)
  ELSE IF \E k \in 1..Len(d.itemStatus) : itemMatches(d.itemStatus[k], name)
  THEN LET k == CHOOSE k \in 1..Len(d.itemStatus) :
                  /\ itemMatches(d.itemStatus[k], name)
                  /\ \A j \in 1..(k - 1) : ~ itemMatches(d.itemStatus[j], name)
       IN  Some(d.itemStatus[k].status)
  ELSE NULL

itemStatus(d, name) ==
  IF \E k \in 1..Len(d.itemStatus) : itemMatches(d.itemStatus[k], name)
  THEN LET k == CHOOSE k \in 1..Len(d.itemStatus) :
                  /\ itemMatches(d.itemStatus[k], name)
                  /\ \A j \in 1..(k - 1) : ~ itemMatches(d.itemStatus[j], name)
       IN  Some(d.itemStatus[k].status)
  ELSE NULL

(***************************************************************************)
(* The substage rules of stages.md, one condition per substage number, and  *)
(* the evaluation of a list of rules in a given order.                      *)
(***************************************************************************)
SubstageOrder == <<28, 27, 26, 25, 24, 23, 21, 20, 19, 18, 17, 16, 15, 14>>

ruleHolds(n, d) ==
  LET sd == normalize(d.school_decision)
      cd == normalize(d.candidate_decision)
      ecr == has(d.checklistsCompleted, ENROLLMENT_CONTRACT_RECEIVED)
      desc == normalize(d.testShortDescription)
  IN  CASE n = 28 -> d.inactive \/ cd = "I Decline" \/ sd = "Denied"
        [] n = 27 -> ecr
        [] n = 26 -> sd = "Waitlist w/ Deposit Paid"
        [] n = 25 -> /\ ~ ecr
                     /\ d.contract_return_date # NULL
                     /\ ~ jsTruthy(d.contract_dep_rec_date)
        [] n = 24 -> sd = "Accepted w/ Conditions"
        [] n = 23 -> sd = "Accepted"
        [] n = 21 -> sd = "Waitlist"
        [] n = 20 -> itemStatus(d, FAIRMONT_ADMISSIONS_RE_ASSESSMENT) = Some("complete")
        [] n = 19 -> d.testNoShow /\ includes(desc, "Re-Assessment")
        [] n = 18 -> itemStatus(d, FAIRMONT_ADMISSIONS_RE_ASSESSMENT) = Some("requested")
        [] n = 17 -> itemStatus(d, FAIRMONT_ADMISSIONS_ASSESSMENT) = Some("complete")
        [] n = 16 -> d.testNoShow /\ includes(desc, "Assessment") /\ ~ includes(desc, "Re-Assessment")
        [] n = 15 -> itemStatus(d, FAIRMONT_ADMISSIONS_ASSESSMENT) = Some("requested")
        [] n = 14 -> has(d.checklistsCompleted, APPLICATION_FORM)
        [] OTHER  -> FALSE

firstRule(order, d) ==
  IF \E k \in 1..Len(order) : ruleHolds(order[k], d)
  THEN LET k == CHOOSE k \in 1..Len(order) :
                  /\ ruleHolds(order[k], d)
                  /\ \A j \in 1..(k - 1) : ~ ruleHolds(order[j], d)
       IN  Some(order[k])
  ELSE NULL

\* The assessment rules consulted in ascending order (15 before 16 before 17).
determineSubstage_ascendingAssessment(d) ==
  firstRule(<<28, 27, 26, 25, 24, 23, 21, 20, 19, 18, 15, 16, 17, 14>>, d)

\* Rule 27 consulted before rule 28.
determineSubstage_enrolledFirst(d) ==
  firstRule(<<27, 28, 26, 25, 24, 23, 21, 20, 19, 18, 17, 16, 15, 14>>, d)

\* The rules consulted from the lowest number to the highest.
determineSubstage_lowestFirst(d) ==
  firstRule(<<14, 15, 16, 17, 18, 19, 20, 21, 23, 24, 25, 26, 27, 28>>, d)

\* A view no rule holds for falls back to 13, Application sent.
determineSubstage_applicationSent(d) ==
  IF firstRule(SubstageOrder, d) = NULL THEN Some(13) ELSE firstRule(SubstageOrder, d)

determineSubstage(d) ==
  LET sd == normalize(d.school_decision)
      cd == normalize(d.candidate_decision)
      assessmentRequested   == itemStatus(d, FAIRMONT_ADMISSIONS_ASSESSMENT) = Some("requested")
      assessmentComplete    == itemStatus(d, FAIRMONT_ADMISSIONS_ASSESSMENT) = Some("complete")
      reAssessmentRequested == itemStatus(d, FAIRMONT_ADMISSIONS_RE_ASSESSMENT) = Some("requested")
      reAssessmentComplete  == itemStatus(d, FAIRMONT_ADMISSIONS_RE_ASSESSMENT) = Some("complete")
      enrollmentContractComplete == has(d.checklistsCompleted, ENROLLMENT_CONTRACT_RECEIVED)
      testDesc == normalize(d.testShortDescription)
  IN  IF d.inactive \/ cd = "I Decline" \/ sd = "Denied" THEN Some(28)
      ELSE IF enrollmentContractComplete THEN Some(27)
      ELSE IF sd = "Waitlist w/ Deposit Paid" THEN Some(26)
      ELSE IF /\ ~ enrollmentContractComplete
              /\ d.contract_return_date # NULL
              /\ (d.contract_dep_rec_date = NULL \/ d.contract_dep_rec_date = Some(""))
           THEN Some(25)
      ELSE IF sd = "Accepted w/ Conditions" THEN Some(24)
      ELSE IF sd = "Accepted" THEN Some(23)
      ELSE IF sd = "Waitlist" THEN Some(21)
      ELSE IF reAssessmentComplete THEN Some(20)
      ELSE IF d.testNoShow /\ includes(testDesc, "Re-Assessment") THEN Some(19)
      ELSE IF reAssessmentRequested THEN Some(18)
      ELSE IF assessmentComplete THEN Some(17)
      ELSE IF d.testNoShow /\ includes(testDesc, "Assessment") /\ ~ includes(testDesc, "Re-Assessment")
           THEN Some(16)
      ELSE IF assessmentRequested THEN Some(15)
      ELSE IF has(d.checklistsCompleted, APPLICATION_FORM) THEN Some(14)
      ELSE NULL

getStageAndSubstage(d) ==
  [stage |-> determineDealStage(d), substage |-> determineSubstage(d)]

\* Human-readable substage id -> label.
SUBSTAGE_LABELS ==
  [n \in 13..28 |->
     CASE n = 13 -> "Application sent"
       [] n = 14 -> "Application received"
       [] n = 15 -> "Assessment scheduled"
       [] n = 16 -> "Assessment no show"
       [] n = 17 -> "Assessment completed"
       [] n = 18 -> "Re-assessment required"
       [] n = 19 -> "Re-assessment no show"
       [] n = 20 -> "Re-assessment completed"
       [] n = 21 -> "Waiting list application"
       [] n = 22 -> "Documents missing"
       [] n = 23 -> "Offer sent"
       [] n = 24 -> "Conditional offer sent"
       [] n = 25 -> "Offer accepted (pending payment)"
       [] n = 26 -> "Waiting list offer accepted"
       [] n = 27 -> "Enrolled"
       [] n = 28 -> "Recyclable"]

\* The ECR reason consulted before the two decision reasons.
stageReasonOf_wonBeforeDecline(d) ==
  LET sd == normalize(d.school_decision)
      cd == normalize(d.candidate_decision)
  IN  IF d.inactive THEN Some("inactive is true")
      ELSE IF has(d.checklistsCompleted, ENROLLMENT_CONTRACT_RECEIVED)
           THEN Some("checklist '" \o ENROLLMENT_CONTRACT_RECEIVED \o "' has at least one item completed")
      ELSE IF cd = "I Decline" THEN Some("candidate_decision = 'I Decline'")
      ELSE IF sd = "Denied" THEN Some("school_decision = 'Denied'")
      ELSE IF jsTruthy(d.contract_publish_date) THEN Some("contract_publish_date is set")
      ELSE IF has(d.checklistsCompleted, DECISION)
           THEN Some("checklist '" \o DECISION \o "' has at least one item completed")
      ELSE IF has(d.checklistsCompleted, APPLICATION_FORM)
           THEN Some("checklist '" \o APPLICATION_FORM \o "' has at least one item completed")
      ELSE NULL

\* let stageReason = null; if (deal.inactive) ... else if ...
stageReasonOf(d) ==
  LET sd == normalize(d.school_decision)
      cd == normalize(d.candidate_decision)
  IN  IF d.inactive THEN Some("inactive is true")
      ELSE IF cd = "I Decline" THEN Some("candidate_decision = 'I Decline'")
      ELSE IF sd = "Denied" THEN Some("school_decision = 'Denied'")
      ELSE IF has(d.checklistsCompleted, ENROLLMENT_CONTRACT_RECEIVED)
           THEN Some("checklist '" \o ENROLLMENT_CONTRACT_RECEIVED \o "' has at least one item completed")
      ELSE IF jsTruthy(d.contract_publish_date) THEN Some("contract_publish_date is set")
      ELSE IF has(d.checklistsCompleted, DECISION)
           THEN Some("checklist '" \o DECISION \o "' has at least one item completed")
      ELSE IF has(d.checklistsCompleted, APPLICATION_FORM)
           THEN Some("checklist '" \o APPLICATION_FORM \o "' has at least one item completed")
      ELSE NULL

substageReasonKeys == {28, 27, 26, 25, 24, 23, 21, 20, 19, 18, 17, 16, 15, 14}

substageReasons ==
  [n \in substageReasonKeys |->
     CASE n = 28 -> "inactive, or candidate_decision = I Decline, or school_decision = Denied"
       [] n = 27 -> "checklist '" \o ENROLLMENT_CONTRACT_RECEIVED \o "' completed"
       [] n = 26 -> "school_decision = 'Waitlist w/ Deposit Paid'"
       [] n = 25 -> "Enrollment Contract not complete, contract_return_date set, contract_dep_rec_date not set"
       [] n = 24 -> "school_decision = 'Accepted w/ Conditions'"
       [] n = 23 -> "school_decision = 'Accepted'"
       [] n = 21 -> "school_decision = 'Waitlist'"
       [] n = 20 -> "checklist item 'Fairmont Admissions Re-Assessment' = complete"
       [] n = 19 -> "test_no_show true and test_short_description contains Re-Assessment"
       [] n = 18 -> "checklist item 'Fairmont Admissions Re-Assessment' = requested"
       [] n = 17 -> "checklist item 'Fairmont Admissions Assessment' = complete"
       [] n = 16 -> "test_no_show true and test_short_description is Fairmont Admissions Assessment"
       [] n = 15 -> "checklist item 'Fairmont Admissions Assessment' = requested"
       [] n = 14 -> "checklist '" \o APPLICATION_FORM \o "' has at least one item completed"]

\* substage != null ? SUBSTAGE_LABELS[substage] ?? `Substage ${substage}` : null
substageLabelOf(substage) ==
  IF substage = NULL THEN NULL
  ELSE IF substage[1] \in DOMAIN SUBSTAGE_LABELS THEN Some(SUBSTAGE_LABELS[substage[1]])
  ELSE Some("Substage " \o ToString(substage[1]))

\* substage != null ? substageReasons[substage] ?? null : null
substageReasonOf(substage) ==
  IF substage = NULL THEN NULL
  ELSE IF substage[1] \in DOMAIN substageReasons THEN Some(substageReasons[substage[1]])
  ELSE NULL

getStageAndSubstageWithBreakdown(d) ==
  [ stage          |-> determineDealStage(d),
    substage       |-> determineSubstage(d),
    substageLabel  |-> substageLabelOf(determineSubstage(d)),
    stageReason    |-> stageReasonOf(d),
    substageReason |-> substageReasonOf(determineSubstage(d)) ]

(***************************************************************************)
(* DealViews handed to the classifiers                                     *)
(***************************************************************************)
CandidateDecisions == { NULL, Some("I Decline"), Some(" I Decline ") }

SchoolDecisions ==
  { NULL, Some("Denied"), Some("Accepted"), Some("Accepted w/ Conditions"),
    Some("Waitlist"), Some("Waitlist w/ Deposit Paid"), Some("Deferred") }

StageLabels == { APPLICATION_FORM, DECISION, ENROLLMENT_CONTRACT_RECEIVED }

ItemNames ==
  { FAIRMONT_ADMISSIONS_ASSESSMENT, FAIRMONT_ADMISSIONS_RE_ASSESSMENT, "Fairmont Admissions" }

ItemEntries == [name : ItemNames, status : {"requested", "complete"}]

\* itemStatus lists as the aggregation builds them: no name occurs twice.
ItemLists ==
  { q \in SeqsUpTo(ItemEntries, MaxItems) :
      \A j, k \in 1..Len(q) : j # k => q[j].name # q[k].name }

PublishDates == { NULL, Some(""), Some("2024-02-20") }

ReturnDates == { NULL, Some("2024-03-02") }

DepRecDates == { NULL, Some(""), Some("2024-03-05") }

TestDescriptions ==
  { NULL, Some(FAIRMONT_ADMISSIONS_ASSESSMENT), Some(FAIRMONT_ADMISSIONS_RE_ASSESSMENT) }

completeNames(items) == { items[k].name : k \in { j \in 1..Len(items) : items[j].status = "complete" } }

\* A completed item is also keyed in checklistsCompleted (lines 152-154).
makeDeal(labels, items, tns, tsd, cd, sd, inact, cpd, crd, cdd) ==
  [ user_id               |-> 1,
    checklistsCompleted   |-> [k \in labels \cup completeNames(items) |-> TRUE],
    itemStatus            |-> items,
    testNoShow            |-> tns,
    testShortDescription  |-> tsd,
    candidate_decision    |-> cd,
    school_decision       |-> sd,
    inactive              |-> inact,
    contract_publish_date |-> cpd,
    contract_return_date  |-> crd,
    contract_dep_rec_date |-> cdd ]

\* The DealView slot before a view is handed over.
NoDeal == newDeal(0, BlankRow(NullId))

\* The state of the batch computation when another part of the system runs.
StageIdle ==
  /\ rows = <<>>
  /\ i = 0
  /\ byUser = EmptyMap
  /\ pc = "idle"
  /\ result = EmptyMap
  /\ deal = NoDeal
  /\ verdict = NULL

(***************************************************************************)
(* The pollers: poll and its .running file                                 *)
(*                                                                         *)
(* Node runs each callback to its next await without interruption, so the  *)
(* synchronous prefix of poll (from existsSync to writeFileSync) is one    *)
(* step.  The clock counts ticks; RUNNING_STALE_MS is given in ticks.  The  *)
(* environment of the process is taken as configured (token present) and   *)
(* writeFileSync as succeeding.                                            *)
(***************************************************************************)
RUNNING_STALE_MS == 2

Polls == 1..MaxPolls

\* JSON.stringify({ started_at: new Date().toISOString(), status: 'running' })
runningContent(t) == [valid |-> TRUE, started_at |-> t]

\* A file JSON.parse throws on.
invalidContent == [valid |-> FALSE]

\* Date.now() - started >= RUNNING_STALE_MS
isStale(content, t) == t - content.started_at >= RUNNING_STALE_MS

\* The file poll tries to remove: unreadable, or readable and stale.
toBeRemoved(content, t) == IF content.valid THEN isStale(content, t) ELSE TRUE

\* What a step of poll leaves alone.
notLockVars == <<stageVars, tokenVars, limitVars, fetchVars>>

LockIdle ==
  /\ runningFile = NULL
  /\ now = 0
  /\ polls = [p \in Polls |-> [pc |-> "scheduled", started_at |-> 0]]

\* The process starts with no .running file, or with one left by a process
\* that died: written at time 0, or unreadable.
LockStart ==
  /\ runningFile \in {NULL, Some(runningContent(0)), Some(invalidContent)}
  /\ now = 0
  /\ polls = [p \in Polls |-> [pc |-> "scheduled", started_at |-> 0]]

Tick ==
  /\ now < MaxTime
  /\ now' = now + 1
  /\ UNCHANGED <<runningFile, polls>>
  /\ UNCHANGED notLockVars

\* poll finds a fresh .running file and returns.
PollSkip(p) ==
  /\ polls[p].pc = "scheduled"
  /\ runningFile # NULL
  /\ runningFile[1].valid
  /\ ~ isStale(runningFile[1], now)
  /\ polls' = [polls EXCEPT ![p].pc = "skipped"]
  /\ UNCHANGED <<runningFile, now>>
  /\ UNCHANGED notLockVars

\* poll finds a stale or unreadable file and unlinkSync throws: it returns.
PollCannotRemove(p) ==
  /\ polls[p].pc = "scheduled"
  /\ runningFile # NULL
  /\ toBeRemoved(runningFile[1], now)
  /\ polls' = [polls EXCEPT ![p].pc = "skipped"]
  /\ UNCHANGED <<runningFile, now>>
  /\ UNCHANGED notLockVars

\* No file, or a stale or unreadable file that unlinkSync removes: the poll
\* writes its own .running file and enters its body.
PollBegin(p) ==
  /\ polls[p].pc = "scheduled"
  /\ IF runningFile = NULL THEN TRUE ELSE toBeRemoved(runningFile[1], now)
  /\ runningFile' = Some(runningContent(now))
  /\ polls' = [polls EXCEPT ![p] = [pc |-> "running", started_at |-> now]]
  /\ UNCHANGED now
  /\ UNCHANGED notLockVars

\* The body (fetch and upsert) has run to its end or to its catch block; the
\* finally block awaits pool.end().
PollSettle(p) ==
  /\ polls[p].pc = "running"
  /\ polls' = [polls EXCEPT ![p].pc = "ending"]
  /\ UNCHANGED <<runningFile, now>>
  /\ UNCHANGED notLockVars

\* try { unlinkSync(RUNNING_FILE) } catch { log.warn(...) }
PollFinally(p) ==
  /\ polls[p].pc = "ending"
  /\ \E removed \in BOOLEAN :
       runningFile' = IF removed THEN NULL ELSE runningFile
  /\ polls' = [polls EXCEPT ![p].pc = "done"]
  /\ UNCHANGED now
  /\ UNCHANGED notLockVars

NextPoll ==
  \/ Tick
  \/ \E p \in Polls : PollSkip(p)
  \/ \E p \in Polls : PollCannotRemove(p)
  \/ \E p \in Polls : PollBegin(p)
  \/ \E p \in Polls : PollSettle(p)
  \/ \E p \in Polls : PollFinally(p)

(***************************************************************************)
(* blackbaud-client: getAccessToken                                        *)
(*                                                                         *)
(* A refresh request is a promise: pending while fetch is awaited, body    *)
(* while res.text() / res.json() is awaited, then fulfilled or rejected.   *)
(* The synchronous part of a call, up to the first await of the refresh it *)
(* starts, is one step.  The configuration has a refresh token.            *)
(***************************************************************************)
Callers == 1..MaxCallers

\* json.expires_in, in ticks.
ExpiresIn == {1, 2}

\* What a step of getAccessToken leaves alone.
notTokenVars == <<stageVars, runningFile, polls, limitVars, fetchVars>>

idleCaller == [pc |-> "idle", promise |-> 0, during |-> 0, got |-> 0]

inFlightRefreshes == { r \in 1..Len(refreshes) : refreshes[r].state \in {"pending", "body"} }

TokenIdle ==
  /\ cachedToken = NULL
  /\ refreshInProgress = NULL
  /\ refreshes = <<>>
  /\ callers = [c \in Callers |-> idleCaller]

\* cachedToken && cachedToken.expires_at > Date.now()
cachedTokenFresh == cachedToken # NULL /\ cachedToken[1].expires_at > now

\* The request in flight when the caller arrives, 0 when there is none.
requestInFlight ==
  IF inFlightRefreshes = {} THEN 0 ELSE CHOOSE r \in inFlightRefreshes : TRUE

\* getAccessToken returns the cached token.
CallCached(c) ==
  /\ callers[c].pc = "idle"
  /\ cachedTokenFresh
  /\ callers' = [callers EXCEPT ![c] =
                   [pc |-> "returned", promise |-> 0, during |-> requestInFlight,
                    got |-> cachedToken[1].access_token]]
  /\ UNCHANGED <<cachedToken, refreshInProgress, refreshes, now>>
  /\ UNCHANGED notTokenVars

\* getAccessToken returns the promise of the refresh in progress.
CallJoin(c) ==
  /\ callers[c].pc = "idle"
  /\ ~ cachedTokenFresh
  /\ refreshInProgress # NULL
  /\ callers' = [callers EXCEPT ![c] =
                   [pc |-> "awaiting", promise |-> refreshInProgress[1],
                    during |-> requestInFlight, got |-> 0]]
  /\ UNCHANGED <<cachedToken, refreshInProgress, refreshes, now>>
  /\ UNCHANGED notTokenVars

\* Every call that finds no fresh token sends its own request.
CallRefresh_noJoin(c) ==
  /\ callers[c].pc = "idle"
  /\ ~ cachedTokenFresh
  /\ Len(refreshes) < MaxRefreshes
  /\ refreshes' = Append(refreshes, [state |-> "pending", ok |-> FALSE])
  /\ refreshInProgress' = Some(Len(refreshes) + 1)
  /\ callers' = [callers EXCEPT ![c] =
                   [pc |-> "awaiting", promise |-> Len(refreshes) + 1,
                    during |-> requestInFlight, got |-> 0]]
  /\ UNCHANGED <<cachedToken, now>>
  /\ UNCHANGED notTokenVars

\* getAccessToken starts a refresh: the request is sent, refreshInProgress
\* is set to its promise, and the promise is returned.
CallRefresh(c) ==
  /\ callers[c].pc = "idle"
  /\ ~ cachedTokenFresh
  /\ refreshInProgress = NULL
  /\ Len(refreshes) < MaxRefreshes
  /\ refreshes' = Append(refreshes, [state |-> "pending", ok |-> FALSE])
  /\ refreshInProgress' = Some(Len(refreshes) + 1)
  /\ callers' = [callers EXCEPT ![c] =
                   [pc |-> "awaiting", promise |-> Len(refreshes) + 1,
                    during |-> requestInFlight, got |-> 0]]
  /\ UNCHANGED <<cachedToken, now>>
  /\ UNCHANGED notTokenVars

\* await fetch(TOKEN_URL, ...) resolves, with res.ok true or false.
RefreshResponse(r) ==
  /\ r \in 1..Len(refreshes)
  /\ refreshes[r].state = "pending"
  /\ \E ok \in BOOLEAN :
       refreshes' = [refreshes EXCEPT ![r] = [state |-> "body", ok |-> ok]]
  /\ UNCHANGED <<cachedToken, refreshInProgress, callers, now>>
  /\ UNCHANGED notTokenVars

\* res.json() resolves: the token is cached; finally clears refreshInProgress.
RefreshFulfil(r) ==
  /\ r \in 1..Len(refreshes)
  /\ refreshes[r].state = "body"
  /\ refreshes[r].ok
  /\ \E e \in ExpiresIn :
       cachedToken' = Some([access_token |-> r, expires_at |-> now + e])
  /\ refreshes' = [refreshes EXCEPT ![r].state = "fulfilled"]
  /\ refreshInProgress' = NULL
  /\ UNCHANGED <<callers, now>>
  /\ UNCHANGED notTokenVars

\* fetch rejects, or the response is not ok and the refresh throws; finally
\* clears refreshInProgress.
RefreshReject(r) ==
  /\ r \in 1..Len(refreshes)
  /\ \/ refreshes[r].state = "pending"
     \/ refreshes[r].state = "body" /\ ~ refreshes[r].ok
  /\ refreshes' = [refreshes EXCEPT ![r].state = "rejected"]
  /\ refreshInProgress' = NULL
  /\ UNCHANGED <<cachedToken, callers, now>>
  /\ UNCHANGED notTokenVars

\* The promise a caller awaits is settled: the caller gets the token of that
\* refresh, or its error.
CallSettle(c) ==
  /\ callers[c].pc = "awaiting"
  /\ refreshes[callers[c].promise].state \in {"fulfilled", "rejected"}
  /\ callers' = [callers EXCEPT
                   ![c].pc = IF refreshes[callers[c].promise].state = "fulfilled"
                             THEN "returned" ELSE "threw",
                   ![c].got = IF refreshes[callers[c].promise].state = "fulfilled"
                              THEN callers[c].promise ELSE 0]
  /\ UNCHANGED <<cachedToken, refreshInProgress, refreshes, now>>
  /\ UNCHANGED notTokenVars

\* The caller (a fetch worker) is ready for its next request.
CallAgain(c) ==
  /\ callers[c].pc \in {"returned", "threw"}
  /\ callers' = [callers EXCEPT ![c] = idleCaller]
  /\ UNCHANGED <<cachedToken, refreshInProgress, refreshes, now>>
  /\ UNCHANGED notTokenVars

NextToken ==
  \/ Tick
  \/ \E c \in Callers : CallCached(c)
  \/ \E c \in Callers : CallJoin(c)
  \/ \E c \in Callers : CallRefresh(c)
  \/ \E r \in 1..MaxRefreshes : RefreshResponse(r)
  \/ \E r \in 1..MaxRefreshes : RefreshFulfil(r)
  \/ \E r \in 1..MaxRefreshes : RefreshReject(r)
  \/ \E c \in Callers : CallSettle(c)
  \/ \E c \in Callers : CallAgain(c)

(***************************************************************************)
(* Blackbaud poll body: withLimit around the store operations              *)
(*                                                                         *)
(* A caller runs from its call, or from its wake-up, to its next await in  *)
(* one step.  A resolver taken from waitQueue only schedules the waiter:   *)
(* the waiter runs later, and other callers may run before it.             *)
(***************************************************************************)
MAX_CONCURRENT_STORES == 2

Workers == 1..MaxWorkers

\* What a step of withLimit leaves alone.
notLimitVars == <<stageVars, lockVars, tokenVars, fetchVars>>

LimitIdle ==
  /\ inFlight = 0
  /\ waitQueue = <<>>
  /\ workers = [w \in Workers |-> [pc |-> "idle", failed |-> FALSE]]

\* while (inFlight >= MAX_CONCURRENT_STORES) await new Promise(r => waitQueue.push(r));
\* inFlight++; ... await fn()
enterOrWait(w) ==
  IF inFlight >= MAX_CONCURRENT_STORES
  THEN /\ waitQueue' = Append(waitQueue, w)
       /\ workers' = [workers EXCEPT ![w].pc = "waiting"]
       /\ UNCHANGED inFlight
  ELSE /\ inFlight' = inFlight + 1
       /\ workers' = [workers EXCEPT ![w].pc = "storing"]
       /\ UNCHANGED waitQueue

\* storeRows(...) is called: withLimit runs to its first await.
StoreCall(w) ==
  /\ workers[w].pc = "idle"
  /\ enterOrWait(w)
  /\ UNCHANGED notLimitVars

\* The woken waiter takes a slot without testing inFlight again.
StoreResume_noRecheck(w) ==
  /\ workers[w].pc = "woken"
  /\ inFlight' = inFlight + 1
  /\ workers' = [workers EXCEPT ![w].pc = "storing"]
  /\ UNCHANGED waitQueue
  /\ UNCHANGED notLimitVars

\* A woken waiter runs: the while condition is tested again.
StoreResume(w) ==
  /\ workers[w].pc = "woken"
  /\ enterOrWait(w)
  /\ UNCHANGED notLimitVars

\* fn() settles, fulfilled or rejected; finally: inFlight--, and the first
\* resolver of waitQueue, if any, is called.
StoreEnd(w) ==
  /\ workers[w].pc = "storing"
  /\ inFlight' = inFlight - 1
  /\ \E failed \in BOOLEAN :
       workers' = [v \in Workers |->
                     IF v = w THEN [pc |-> "idle", failed |-> failed]
                     ELSE IF waitQueue # <<>> /\ v = Head(waitQueue)
                          THEN [workers[v] EXCEPT !.pc = "woken"]
                          ELSE workers[v]]
  /\ waitQueue' = IF waitQueue # <<>> THEN Tail(waitQueue) ELSE waitQueue
  /\ UNCHANGED notLimitVars

NextLimit ==
  \/ \E w \in Workers : StoreCall(w)
  \/ \E w \in Workers : StoreResume(w)
  \/ \E w \in Workers : StoreEnd(w)

(***************************************************************************)
(* HubSpot poll body: fetchDealsSearch                                     *)
(*                                                                         *)
(* One step runs from the resumption of one await to the next await.  The  *)
(* cursor of a page is its number; `after` is 0 while undefined.  A deal's *)
(* hs_lastmodifieddate is its parsed value, 0 when absent or not a number. *)
(***************************************************************************)
MAX_429_RETRIES == 2

\* res.status values: rate limited, ok, not ok.  In the request log a status
\* is 0 while the response is awaited and -1 when fetch rejected.
Statuses == {429, 200, 500}

isOk(status) == status >= 200 /\ status <= 299

LastModified == {0, 2}

\* modifiedAfter option: 0 when not given.
ModifiedAfterOptions == {0, 2}

\* data.results of one response.
ResultLists ==
  UNION { [1..n -> LastModified] : n \in 0..MaxResults }

\* data.paging?.next?.after: undefined, "" or a cursor.
NextAfters == {"undefined", "empty", "cursor"}

notFetchVars == <<stageVars, lockVars, tokenVars, limitVars>>

FetchIdle ==
  /\ fpc = "idle"
  /\ after = 0
  /\ retry = 0
  /\ all = <<>>
  /\ modifiedAfter = 0
  /\ requests = <<>>
  /\ pagesRead = <<>>
  /\ outcome = NULL

\* fetch(SEARCH_URL, { body: JSON.stringify(buildBody()) })
sendRequest(cursor) == Append(requests, [after |-> cursor, status |-> 0])

\* The response to the request that is awaited.
answered(status) == [requests EXCEPT ![Len(requests)].status = status]

\* fetchDealsSearch is called with a token: the first request is sent.
FetchStart ==
  /\ fpc = "awaitFetch"
  /\ after = 0
  /\ retry = 0
  /\ all = <<>>
  /\ modifiedAfter \in ModifiedAfterOptions
  /\ requests = <<[after |-> 0, status |-> 0]>>
  /\ pagesRead = <<>>
  /\ outcome = NULL

\* res.status === 429: await sleep(wait)
Response429 ==
  /\ fpc = "awaitFetch"
  /\ requests' = answered(429)
  /\ fpc' = "sleep429"
  /\ UNCHANGED <<after, retry, all, modifiedAfter, pagesRead, outcome>>
  /\ UNCHANGED notFetchVars

\* The retry loop allows one attempt more.
AfterSleep429_oneMore ==
  /\ fpc = "sleep429"
  /\ retry' = retry + 1
  /\ IF retry + 1 <= MAX_429_RETRIES + 1
     THEN /\ requests' = sendRequest(after)
          /\ fpc' = "awaitFetch"
          /\ UNCHANGED outcome
     ELSE /\ fpc' = "threw"
          /\ outcome' = Some([kind |-> "threw", error |-> "Rate limited"])
          /\ UNCHANGED requests
  /\ UNCHANGED <<after, all, modifiedAfter, pagesRead>>
  /\ UNCHANGED notFetchVars

\* lastErr is set; continue: retry++, and either the next attempt is sent or
\* the loop ends and lastErr is thrown.
AfterSleep429 ==
  /\ fpc = "sleep429"
  /\ retry' = retry + 1
  /\ IF retry + 1 <= MAX_429_RETRIES
     THEN /\ requests' = sendRequest(after)
          /\ fpc' = "awaitFetch"
          /\ UNCHANGED outcome
     ELSE /\ fpc' = "threw"
          /\ outcome' = Some([kind |-> "threw", error |-> "Rate limited"])
          /\ UNCHANGED requests
  /\ UNCHANGED <<after, all, modifiedAfter, pagesRead>>
  /\ UNCHANGED notFetchVars

\* Any other status: lastErr = null; break; then res.text() or res.json().
ResponseOther ==
  /\ fpc = "awaitFetch"
  /\ \E status \in Statuses \ {429} :
       /\ requests' = answered(status)
       /\ fpc' = IF isOk(status) THEN "awaitJson" ELSE "awaitText"
  /\ UNCHANGED <<after, retry, all, modifiedAfter, pagesRead, outcome>>
  /\ UNCHANGED notFetchVars

\* fetch rejects (no response): the exception leaves the function.
FetchRejects ==
  /\ fpc = "awaitFetch"
  /\ requests' = answered(-1)
  /\ fpc' = "threw"
  /\ outcome' = Some([kind |-> "threw", error |-> "fetch failed"])
  /\ UNCHANGED <<after, retry, all, modifiedAfter, pagesRead>>
  /\ UNCHANGED notFetchVars

\* !res.ok: throw new Error(`HubSpot search failed: ...`)
SearchFailed ==
  /\ fpc = "awaitText"
  /\ fpc' = "threw"
  /\ outcome' = Some([kind |-> "threw", error |-> "HubSpot search failed"])
  /\ UNCHANGED <<after, retry, all, modifiedAfter, requests, pagesRead>>
  /\ UNCHANGED notFetchVars

\* if (modifiedAfter != null && modifiedAfter > 0) { ... if (ts < modifiedAfter) continue; }
kept(lastmod) == ~(modifiedAfter > 0 /\ lastmod < modifiedAfter)

\* for (const r of results) { ... all.push({ id, properties }) }
RECURSIVE pushResults(_, _, _, _)
pushResults(acc, results, cursor, k) ==
  IF k > Len(results) THEN acc
  ELSE pushResults(IF kept(results[k])
                   THEN Append(acc, [id |-> <<cursor, k>>, lastmod |-> results[k]])
                   ELSE acc,
                   results, cursor, k + 1)

\* Array.prototype.sort is stable: x goes behind the deals that are not older.
RECURSIVE insertByLastModified(_, _)
insertByLastModified(sorted, x) ==
  IF sorted = <<>> THEN <<x>>
  ELSE IF Head(sorted).lastmod >= x.lastmod
       THEN <<Head(sorted)>> \o insertByLastModified(Tail(sorted), x)
       ELSE <<x>> \o sorted

\* all.sort((a, b) => tb - ta)
RECURSIVE sortByLastModified(_)
sortByLastModified(deals) ==
  IF deals = <<>> THEN <<>>
  ELSE insertByLastModified(sortByLastModified(SubSeq(deals, 1, Len(deals) - 1)),
                            deals[Len(deals)])

\* if (!nextAfter || results.length === 0) break;
lastPage(results, nextAfter) == nextAfter # "cursor" \/ Len(results) = 0

\* res.json() is read: the page is pushed, then either the loop breaks and
\* the sorted deals are returned, or `after` moves on and sleep(DELAY_MS).
PageRead ==
  /\ fpc = "awaitJson"
  /\ \E results \in ResultLists, nextAfter \in NextAfters :
       /\ nextAfter = "cursor" => after + 1 < MaxFetchPages
       /\ pagesRead' = Append(pagesRead, [after |-> after,
                                           results |-> Len(results),
                                           nextAfter |-> nextAfter])
       /\ all' = pushResults(all, results, after, 1)
       /\ IF lastPage(results, nextAfter)
          THEN /\ fpc' = "returned"
               /\ outcome' = Some([kind |-> "returned",
                                   deals |-> sortByLastModified(all')])
               /\ UNCHANGED after
          ELSE /\ fpc' = "pageSleep"
               /\ after' = after + 1
               /\ UNCHANGED outcome
  /\ UNCHANGED <<retry, modifiedAfter, requests>>
  /\ UNCHANGED notFetchVars

\* sleep(DELAY_MS) is over: the next page is requested.
NextPage ==
  /\ fpc = "pageSleep"
  /\ retry' = 0
  /\ requests' = sendRequest(after)
  /\ fpc' = "awaitFetch"
  /\ UNCHANGED <<after, all, modifiedAfter, pagesRead, outcome>>
  /\ UNCHANGED notFetchVars

NextFetch ==
  \/ Response429
  \/ AfterSleep429
  \/ ResponseOther
  \/ FetchRejects
  \/ SearchFailed
  \/ PageRead
  \/ NextPage

(***************************************************************************)
(* Specifications of the pollers                                           *)
(***************************************************************************)
PollerIdle == LockIdle /\ TokenIdle /\ LimitIdle /\ FetchIdle

InitPoll == StageIdle /\ LockStart /\ TokenIdle /\ LimitIdle /\ FetchIdle

InitFetch == StageIdle /\ LockIdle /\ TokenIdle /\ LimitIdle /\ FetchStart

SpecFetch == InitFetch /\ [][NextFetch]_vars

InitLimit == StageIdle /\ PollerIdle

SpecLimit == InitLimit /\ [][NextLimit]_vars

SpecPoll == InitPoll /\ [][NextPoll]_vars

InitToken == StageIdle /\ PollerIdle

SpecToken == InitToken /\ [][NextToken]_vars

(***************************************************************************)
(* Specification of the batch computation                                  *)
(* getStageAndSubstageForAllUsers: rows loaded, folded one by one, then     *)
(* every view classified.                                                  *)
(***************************************************************************)

Init ==
  /\ rows \in SeqsUpTo(RowPool, MaxRows)
  /\ i = 0
  /\ byUser = EmptyMap
  /\ pc = "fold"
  /\ result = EmptyMap
  /\ deal = NoDeal
  /\ verdict = NULL
  /\ PollerIdle

FoldRow ==
  /\ pc = "fold"
  /\ i < Len(rows)
  /\ byUser' = foldRow(byUser, rows[i + 1])
  /\ i' = i + 1
  /\ UNCHANGED <<rows, pc, result, deal, verdict>>
  /\ UNCHANGED pollerVars

ClassifyAll ==
  /\ pc = "fold"
  /\ i = Len(rows)
  /\ result' = [u \in DOMAIN byUser |-> getStageAndSubstage(byUser[u])]
  /\ pc' = "done"
  /\ UNCHANGED <<rows, i, byUser, deal, verdict>>
  /\ UNCHANGED pollerVars

Next == FoldRow \/ ClassifyAll

Spec == Init /\ [][Next]_vars

(***************************************************************************)
(* Specification of the classifiers as pure functions of a DealView        *)
(***************************************************************************)
InitClassify ==
  /\ \E labels \in SUBSET StageLabels, items \in ItemLists, tns \in BOOLEAN,
        tsd \in TestDescriptions, cd \in CandidateDecisions, sd \in SchoolDecisions,
        inact \in BOOLEAN, cpd \in PublishDates, crd \in ReturnDates, cdd \in DepRecDates :
       deal = makeDeal(labels, items, tns, tsd, cd, sd, inact, cpd, crd, cdd)
  /\ verdict = NULL
  /\ rows = <<>>
  /\ i = 0
  /\ byUser = EmptyMap
  /\ pc = "view"
  /\ result = EmptyMap
  /\ PollerIdle

Classify ==
  /\ pc = "view"
  /\ verdict = NULL
  /\ verdict' = Some(getStageAndSubstage(deal))
  /\ UNCHANGED <<deal, rows, i, byUser, pc, result>>
  /\ UNCHANGED pollerVars

ClassifyWithBreakdown ==
  /\ pc = "view"
  /\ verdict = NULL
  /\ verdict' = Some(getStageAndSubstageWithBreakdown(deal))
  /\ UNCHANGED <<deal, rows, i, byUser, pc, result>>
  /\ UNCHANGED pollerVars

NextClassify == Classify \/ ClassifyWithBreakdown

SpecClassify == InitClassify /\ [][NextClassify]_vars

classified == pc = "view" /\ verdict # NULL

\* C1: determineSubstage returns the number of the first rule, in the order
\* 28, 27, 26, 25, 24, 23, 21, 20, 19, 18, 17, 16, 15, 14, whose condition
\* holds for the view, and null when no rule holds.
C1_FirstSubstageRuleWins ==
  classified => verdict[1].substage = firstRule(SubstageOrder, deal)

\* A view on which rules 23, 20 and 14 hold together and 23 is returned.
C1_Witness ==
  /\ classified
  /\ ruleHolds(23, deal) /\ ruleHolds(20, deal) /\ ruleHolds(14, deal)
  /\ verdict[1].substage = Some(23)

\* C2 (as stated): determineDealStage returns the stage of the first guard
\* that holds, the decision guard being candidate_decision = 'I Decline' or
\* school_decision = 'Denied' on the stored values.
C2_StageOfFirstGuard_AsStated ==
  classified => verdict[1].stage = firstGuard(guardHoldsUntrimmed, StageOrder, deal)

\* C2 (amended): determineDealStage returns the stage of the first guard that
\* holds in the order inactive, decision (compared after trimming), Enrollment
\* Contract Received, contract_publish_date set, Decision, Application Form,
\* and null when none holds.
C2_StageOfFirstGuard ==
  classified => verdict[1].stage = firstGuard(guardHolds, StageOrder, deal)

\* The guards of Closed Won, Contract Sent and Application hold together.
C2_Witness ==
  /\ classified
  /\ guardHolds(3, deal) /\ guardHolds(4, deal) /\ guardHolds(6, deal)
  /\ verdict[1].stage = Some("Closed Won")

closedLostCondition(d) ==
  \/ d.inactive
  \/ normalize(d.candidate_decision) = "I Decline"
  \/ normalize(d.school_decision) = "Denied"

closedWonCondition(d) == has(d.checklistsCompleted, ENROLLMENT_CONTRACT_RECEIVED)

\* C3: when a Closed Lost condition and the Closed Won condition hold at the
\* same time, the stage is Closed Lost and the substage is 28.
C3_ClosedLostWinsInBoth ==
  classified /\ closedLostCondition(deal) /\ closedWonCondition(deal)
    => verdict[1].stage = Some("Closed Lost") /\ verdict[1].substage = Some(28)

\* A declined, still active candidate whose enrollment contract is received.
C3_Witness ==
  /\ classified
  /\ ~ deal.inactive
  /\ deal.candidate_decision = Some("I Decline")
  /\ closedWonCondition(deal)
  /\ verdict[1] = [stage |-> Some("Closed Lost"), substage |-> Some(28)]

rule27and14(d) ==
  /\ has(d.checklistsCompleted, ENROLLMENT_CONTRACT_RECEIVED)
  /\ has(d.checklistsCompleted, APPLICATION_FORM)

\* C5 (as stated): a view satisfying the conditions of rules 27 and 14 is
\* classified as substage 27.
C5_EnrolledBeatsApplication_AsStated ==
  classified /\ rule27and14(deal) => verdict[1].substage = Some(27)

\* C5 (amended): a view satisfying the conditions of rules 27 and 14 is
\* classified as substage 27, or as 28 when the rule-28 condition holds too,
\* and never as 14.
C5_EnrolledBeatsApplication ==
  classified /\ rule27and14(deal)
    => verdict[1].substage = (IF closedLostCondition(deal) THEN Some(28) ELSE Some(27))

\* Rules 27 and 14 hold, rule 28 does not, and 27 is returned.
C5_Witness ==
  /\ classified
  /\ rule27and14(deal)
  /\ ~ closedLostCondition(deal)
  /\ verdict[1].substage = Some(27)

(***************************************************************************)
(* Properties of the aggregation                                           *)
(***************************************************************************)
\* A string id reads as a number: optional sign, then at least one digit.
readsAsNumber(str) ==
  LET t == trimStart(str)
  IN  /\ Len(t) > 0
      /\ \/ IsDigit(SubSeq(t, 1, 1))
         \/ SubSeq(t, 1, 1) \in {"-", "+"} /\ Len(t) > 1 /\ IsDigit(SubSeq(t, 2, 2))

unattributable(r) ==
  \/ r.user_id.kind = "null"
  \/ r.user_id.kind = "string" /\ ~ readsAsNumber(r.user_id.str)

uidOf(k) == toUserId(rows[k].user_id)

\* The rows of user u among the first n rows.
factsOf(u, n) == { k \in 1..n : ~ unattributable(rows[k]) /\ uidOf(k) = Some(u) }

maxOf(K) == CHOOSE k \in K : \A j \in K : j <= k

removeAt(q, k) == SubSeq(q, 1, k - 1) \o SubSeq(q, k + 1, Len(q))

\* C4: once a row of a person with a truthy inactive value is folded in, the
\* person's view is inactive, and the person is classified Closed Lost / 28,
\* whatever the person's other rows hold and wherever that row stands.
C4_InactiveIsClosedLost ==
  \A k \in 1..i :
    (~ unattributable(rows[k]) /\ truthy(rows[k].inactive))
      => /\ byUser[uidOf(k)[1]].inactive
         /\ pc = "done" =>
              result[uidOf(k)[1]] = [stage |-> Some("Closed Lost"), substage |-> Some(28)]

\* An inactive row followed by a row of the same person whose inactive value
\* is present but not truthy.
C4_Witness ==
  /\ pc = "done"
  /\ \E k, j \in 1..Len(rows) :
       /\ k < j
       /\ ~ unattributable(rows[k]) /\ ~ unattributable(rows[j])
       /\ uidOf(k) = uidOf(j)
       /\ truthy(rows[k].inactive)
       /\ rows[j].inactive # NULL /\ ~ truthy(rows[j].inactive)
       /\ result[uidOf(k)[1]].substage = Some(28)

LastNonNullFields ==
  { "candidate_decision", "school_decision", "contract_publish_date",
    "contract_return_date", "contract_dep_rec_date" }

lastNonNull(u, f, n) ==
  LET K == { k \in factsOf(u, n) : rows[k][f] # NULL }
  IN  IF K = {} THEN NULL ELSE rows[maxOf(K)][f]

\* C6: each decision and contract field of a view is the value of the last
\* row of the person whose field is non-null, and null when there is none.
C6_LastNonNullWins ==
  \A u \in DOMAIN byUser : \A f \in LastNonNullFields :
    byUser[u][f] = lastNonNull(u, f, i)

\* A school_decision survives a later row of the person that carries null.
C6_Witness ==
  \E k, j \in 1..i :
    /\ k < j /\ j = i
    /\ ~ unattributable(rows[k]) /\ ~ unattributable(rows[j])
    /\ uidOf(k) = uidOf(j)
    /\ rows[k].school_decision # NULL
    /\ rows[j].school_decision = NULL
    /\ byUser[uidOf(k)[1]].school_decision = rows[k].school_decision

\* Counts as complete: completed_on set, or step_status Completed / Waived.
completeFact(r) ==
  \/ jsTruthy(r.date_completed)
  \/ r.step_status # NULL /\ trim(r.step_status[1]) \in {"Completed", "Waived"}

completeFactUntrimmed(r) ==
  \/ jsTruthy(r.date_completed)
  \/ r.step_status \in {Some("Completed"), Some("Waived")}

requestedOnly(r) == ~ completeFact(r) /\ jsTruthy(r.date_requested)

\* C7: at every point of the fold, an item name for which a complete row of
\* the person has been folded in has an entry, and that entry is complete,
\* whatever requested-only rows came before or after.
C7_CompleteNeverDowngraded ==
  \A u \in DOMAIN byUser : \A k \in factsOf(u, i) :
    (normalize(rows[k].checklist_item) # "" /\ completeFact(rows[k]))
      => LET items == byUser[u].itemStatus
             name  == normalize(rows[k].checklist_item)
         IN  /\ \E e \in 1..Len(items) : items[e].name = name
             /\ \A e \in 1..Len(items) : items[e].name = name => items[e].status = "complete"

\* requested, complete, requested for one item of one person.
C7_Witness ==
  /\ i = 3
  /\ ~ unattributable(rows[1]) /\ ~ unattributable(rows[2]) /\ ~ unattributable(rows[3])
  /\ uidOf(1) = uidOf(2) /\ uidOf(2) = uidOf(3)
  /\ normalize(rows[1].checklist_item) = FAIRMONT_ADMISSIONS_ASSESSMENT
  /\ normalize(rows[2].checklist_item) = FAIRMONT_ADMISSIONS_ASSESSMENT
  /\ normalize(rows[3].checklist_item) = FAIRMONT_ADMISSIONS_ASSESSMENT
  /\ requestedOnly(rows[1]) /\ completeFact(rows[2]) /\ requestedOnly(rows[3])
  /\ byUser[uidOf(1)[1]].itemStatus =
       <<[name |-> FAIRMONT_ADMISSIONS_ASSESSMENT, status |-> "complete"]>>

\* C8: a row whose user_id is null or does not read as a number leaves the
\* map as it would be without the row: no view is created for it and no view
\* of another person changes.
C8_UnattributableRowSkipped ==
  \A k \in 1..i :
    unattributable(rows[k])
      => byUser = aggregateChecklistRowsByUser(removeAt(SubSeq(rows, 1, i), k))

\* A row with an unparseable string id between two rows of real persons.
C8_Witness ==
  /\ pc = "done"
  /\ Len(rows) = 3
  /\ ~ unattributable(rows[1])
  /\ rows[2].user_id.kind = "string" /\ unattributable(rows[2])
  /\ ~ unattributable(rows[3])
  /\ DOMAIN byUser = {uidOf(1)[1], uidOf(3)[1]}

labelsOf(r) == {normalize(r.checklist_name), normalize(r.checklist_item)} \ {""}

labelsSeen(u) ==
  DOMAIN byUser[u].checklistsCompleted \cup UNION { labelsOf(rows[k]) : k \in 1..Len(rows) }

\* C9 (as stated): checklistsCompleted[L] is true exactly when a row of the
\* person labelled L, as checklist name or item name, counts as complete,
\* step_status being compared as stored.
C9_CompletionMap_AsStated ==
  \A u \in DOMAIN byUser : \A L \in labelsSeen(u) :
    has(byUser[u].checklistsCompleted, L)
      <=> \E k \in factsOf(u, i) : L \in labelsOf(rows[k]) /\ completeFactUntrimmed(rows[k])

\* C9 (amended): checklistsCompleted[L] is true, for a non-empty label L,
\* exactly when a row of the person labelled L (checklist name or item name,
\* trimmed) counts as complete: completed_on set, or step_status, after
\* trimming, Completed or Waived.
C9_CompletionMap ==
  \A u \in DOMAIN byUser : \A L \in labelsSeen(u) :
    has(byUser[u].checklistsCompleted, L)
      <=> \E k \in factsOf(u, i) : L \in labelsOf(rows[k]) /\ completeFact(rows[k])

\* One view holds a label given as a checklist name and a label given as an
\* item name completed only by its step_status, next to a label not completed.
C9_Witness ==
  /\ i = Len(rows)
  /\ \E u \in DOMAIN byUser : \E k, j \in factsOf(u, i) :
       /\ rows[k].checklist_name # NULL /\ completeFact(rows[k])
       /\ has(byUser[u].checklistsCompleted, normalize(rows[k].checklist_name))
       /\ rows[j].checklist_item # NULL /\ ~ jsTruthy(rows[j].date_completed)
       /\ completeFact(rows[j])
       /\ has(byUser[u].checklistsCompleted, normalize(rows[j].checklist_item))
       /\ \E L \in labelsSeen(u) : ~ has(byUser[u].checklistsCompleted, L)

\* The coercion as the specification words it.
coercionAsSpecified(s) ==
  IF s = NULL \/ s = Some("") THEN FALSE
  ELSE toLowerCase(trim(s[1])) \notin {"false", "no", "0"}

\* C10: truthy maps null and '' to false, the literals false / no / 0
\* (case-insensitive, trimmed) to false, and every other value to true, on
\* the inactive and test_no_show values of the rows folded in.
C10_TruthyCoercion ==
  \A k \in 1..i :
    ~ unattributable(rows[k])
      => /\ truthy(rows[k].inactive) = coercionAsSpecified(rows[k].inactive)
         /\ truthy(rows[k].test_no_show) = coercionAsSpecified(rows[k].test_no_show)

\* The specified coercion, a whitespace-only value read as empty.
specifiedTruthy(s) == coercionAsSpecified(s) /\ trim(s[1]) # ""

\* C11: a view's inactive is true exactly when a folded row of the person
\* has a truthy inactive value, and testNoShow exactly when a folded row of
\* the person has a truthy test_no_show value, truthy being the specified
\* coercion (false / no / 0 are not truthy).
C11_OrReduction ==
  \A u \in DOMAIN byUser :
    /\ byUser[u].inactive <=> \E k \in factsOf(u, i) : specifiedTruthy(rows[k].inactive)
    /\ byUser[u].testNoShow <=> \E k \in factsOf(u, i) : specifiedTruthy(rows[k].test_no_show)

\* The same reduction with truthy as the code computes it.
C11_OrReductionOfCodeTruthy ==
  \A u \in DOMAIN byUser :
    /\ byUser[u].inactive <=> \E k \in factsOf(u, i) : truthy(rows[k].inactive)
    /\ byUser[u].testNoShow <=> \E k \in factsOf(u, i) : truthy(rows[k].test_no_show)

\* The orderings of n rows.
Orderings(n) == { p \in [1..n -> 1..n] : \A a, b \in 1..n : p[a] = p[b] => a = b }

reordered(rs, p) == [k \in 1..Len(rs) |-> rs[p[k]]]

\* The name -> status relation held by an item_status list.
statusByName(items) == { <<items[k].name, items[k].status>> : k \in 1..Len(items) }

\* What of a view does not depend on the order of the facts.
orderFree(d) ==
  [ inactive            |-> d.inactive,
    testNoShow          |-> d.testNoShow,
    checklistsCompleted |-> d.checklistsCompleted,
    statuses            |-> statusByName(d.itemStatus) ]

orderFreeViews(map) == [u \in DOMAIN map |-> orderFree(map[u])]

\* C12: the aggregation of any reordering of the input agrees with the
\* aggregation of the input, person by person, on inactive, testNoShow,
\* the checklistsCompleted map and the status of every item name.
C12_OrderIndependent ==
  i = Len(rows) =>
    \A p \in Orderings(Len(rows)) :
      orderFreeViews(aggregateChecklistRowsByUser(reordered(rows, p))) = orderFreeViews(byUser)

\* Three rows of one person whose last-wins fields do depend on the order:
\* one blank inactive value, one truthy, and a requested/complete pair.
C12_Witness ==
  /\ i = 3 /\ Len(rows) = 3
  /\ \A k \in 1..3 : uidOf(k) = Some(1)
  /\ \E p \in Orderings(3) :
       aggregateChecklistRowsByUser(reordered(rows, p)) # byUser
  /\ byUser[1].inactive
  /\ \E k \in 1..3 : rows[k].inactive # NULL /\ ~ truthy(rows[k].inactive)
  /\ \E e \in statusByName(byUser[1].itemStatus) : e[2] = "complete"
  /\ \E k \in 1..3 : requestedOnly(rows[k])

\* The person a row is attributed to: the number itself, or the number a
\* string id reads as.
personIdOf(r) ==
  IF r.user_id.kind = "number" THEN r.user_id.num ELSE parseInt(r.user_id.str)[1]

personIdsIn(rs) == { personIdOf(rs[k]) : k \in { j \in 1..Len(rs) : ~ unattributable(rs[j]) } }

\* C14: at every point of the fold the keys of the map are exactly the
\* person ids of the attributable rows folded so far, one view per id, and
\* every view carries its key as user_id.
C14_OneViewPerPerson ==
  /\ DOMAIN byUser = personIdsIn(SubSeq(rows, 1, i))
  /\ \A u \in DOMAIN byUser : byUser[u].user_id = u

\* Three rows naming person 2 as a number, a string and a padded string
\* are folded into the one view of key 2.
C14_Witness ==
  /\ i = 3 /\ Len(rows) = 3
  /\ { rows[k].user_id : k \in 1..3 } = { NumId(2), StrId("2"), StrId(" 2") }
  /\ DOMAIN byUser = {2}
  /\ byUser[2].user_id = 2

(***************************************************************************)
(* Range of the classifiers and the breakdown                              *)
(***************************************************************************)
ReturnedSubstages == {14, 15, 16, 17, 18, 19, 20, 21, 23, 24, 25, 26, 27, 28}

\* C15: the substage returned for a view is null or one of 14, 15, 16, 17,
\* 18, 19, 20, 21, 23, 24, 25, 26, 27, 28; it is never 13 and never 22.
C15_SubstageRange ==
  classified =>
    /\ verdict[1].substage \in {NULL} \cup { Some(n) : n \in ReturnedSubstages }
    /\ verdict[1].substage \notin { Some(13), Some(22) }

\* A view with a stage and no substage: the place a fallback to 13 or 22
\* would show.
C15_Witness ==
  /\ classified
  /\ verdict[1].stage = Some("Decision")
  /\ verdict[1].substage = NULL
  /\ \A n \in 13..28 : ~ ruleHolds(n, deal)

brokenDown == classified /\ "stageReason" \in DOMAIN verdict[1]

\* The reason string shown for a stage guard; the decision guard has one
\* string for the candidate's decline and one for the school's denial.
reasonOfGuard(g, d) ==
  CASE g = 1 -> "inactive is true"
    [] g = 2 -> IF normalize(d.candidate_decision) = "I Decline"
                THEN "candidate_decision = 'I Decline'"
                ELSE "school_decision = 'Denied'"
    [] g = 3 -> "checklist 'Enrollment Contract Received' has at least one item completed"
    [] g = 4 -> "contract_publish_date is set"
    [] g = 5 -> "checklist 'Decision' has at least one item completed"
    [] g = 6 -> "checklist 'Application Form' has at least one item completed"

reasonOfFirstGuard(d) ==
  IF \E g \in 1..6 : guardHolds(g, d)
  THEN Some(reasonOfGuard(CHOOSE g \in 1..6 :
                            guardHolds(g, d) /\ \A h \in 1..(g - 1) : ~ guardHolds(h, d), d))
  ELSE NULL

\* C16: the breakdown carries the stage and the substage of the two
\* classifiers; its stageReason is the string of the first stage guard that
\* holds, null exactly when the stage is null; its substageLabel and
\* substageReason are the table entries of the returned substage, null
\* exactly when the substage is null.
C16_BreakdownAgrees ==
  brokenDown =>
    LET b == verdict[1]
    IN  /\ b.stage = determineDealStage(deal)
        /\ b.substage = determineSubstage(deal)
        /\ b.stageReason = reasonOfFirstGuard(deal)
        /\ (b.stageReason = NULL) <=> (b.stage = NULL)
        /\ (b.substageLabel = NULL) <=> (b.substage = NULL)
        /\ (b.substageReason = NULL) <=> (b.substage = NULL)
        /\ b.substage # NULL =>
             /\ b.substageLabel = Some(SUBSTAGE_LABELS[b.substage[1]])
             /\ b.substageReason = Some(substageReasons[b.substage[1]])

\* A breakdown of a view that is denied by the school while its enrollment
\* contract is complete: the denial is the reason given, and the substage
\* entries are those of 28.
C16_Witness ==
  /\ brokenDown
  /\ ~ deal.inactive
  /\ deal.candidate_decision = NULL
  /\ has(deal.checklistsCompleted, ENROLLMENT_CONTRACT_RECEIVED)
  /\ verdict[1].stageReason = Some("school_decision = 'Denied'")
  /\ verdict[1].substageLabel = Some("Recyclable")
  /\ verdict[1].substageReason
       = Some("inactive, or candidate_decision = I Decline, or school_decision = Denied")

StageNames == {"Closed Lost", "Closed Won", "Contract Sent", "Decision", "Application"}

matchesNothing(d) ==
  /\ \A g \in 1..6 : ~ guardHolds(g, d)
  /\ \A n \in 13..28 : ~ ruleHolds(n, d)

\* C17: every view is classified: the stage is one of the five stage names
\* or null, the substage a substage number or null, and a view for which no
\* stage guard and no substage rule holds gets stage null and substage null.
C17_ClassificationTotal ==
  classified =>
    /\ verdict[1].stage \in {NULL} \cup { Some(s) : s \in StageNames }
    /\ verdict[1].substage \in {NULL} \cup { Some(n) : n \in 13..28 }
    /\ matchesNothing(deal) => verdict[1].stage = NULL /\ verdict[1].substage = NULL

\* A view with an unrecognised school decision and an empty publish date
\* matches nothing and is classified null / null.
C17_Witness ==
  /\ classified
  /\ deal.school_decision = Some("Deferred")
  /\ deal.contract_publish_date = Some("")
  /\ matchesNothing(deal)
  /\ verdict[1].stage = NULL
  /\ verdict[1].substage = NULL

\* C18: a view's testShortDescription is the test_short_description of the
\* last row of the person that has it non-null, and null when no row of the
\* person has it non-null.
C18_LastNonNullDescription ==
  \A u \in DOMAIN byUser :
    byUser[u].testShortDescription = lastNonNull(u, "test_short_description", i)

ItemStatuses == {"requested", "complete"}

\* C19: at every point of the fold, the itemStatus of every view holds at
\* most one entry per item name, and every entry's status is requested or
\* complete.
C19_OneEntryPerItem ==
  \A u \in DOMAIN byUser :
    LET items == byUser[u].itemStatus
    IN  /\ \A a, b \in 1..Len(items) : items[a].name = items[b].name => a = b
        /\ \A a \in 1..Len(items) : items[a].status \in ItemStatuses

\* Three rows of one person, two of them naming the same item (one padded),
\* leave two entries.
C19_Witness ==
  /\ i = 3
  /\ \A k \in 1..3 : uidOf(k) = Some(1) /\ statusOf(rows[k]) # NULL
  /\ rows[1].checklist_item # rows[3].checklist_item
  /\ normalize(rows[1].checklist_item) = normalize(rows[3].checklist_item)
  /\ normalize(rows[2].checklist_item) \notin {"", normalize(rows[1].checklist_item)}
  /\ Len(byUser[1].itemStatus) = 2

\* A completed fact whose one label is "Application Form", carrying no
\* decision, contract date, inactive or no-show value.
applicationFormFact(r) ==
  /\ labelsOf(r) = {APPLICATION_FORM}
  /\ completeFact(r)
  /\ r.candidate_decision = NULL /\ r.school_decision = NULL
  /\ r.contract_publish_date = NULL /\ r.contract_return_date = NULL
  /\ r.contract_dep_rec_date = NULL
  /\ r.inactive = NULL /\ r.test_no_show = NULL

\* C20: a person all of whose facts are completed "Application Form" facts,
\* the label given as checklist_name or as checklist_item, with no decision,
\* contract date, inactive or no-show value, is classified Application / 14.
C20_ApplicationFormOnly ==
  pc = "done" =>
    \A u \in DOMAIN result :
      (\A k \in factsOf(u, Len(rows)) : applicationFormFact(rows[k]))
        => result[u] = [stage |-> Some("Application"), substage |-> Some(14)]

\* Person 1 with the label as checklist_name and person 2 with the label as
\* checklist_item, next to a third row that is attributed to nobody.
C20_Witness ==
  /\ pc = "done"
  /\ DOMAIN result = {1, 2}
  /\ \E k \in factsOf(1, Len(rows)) :
       applicationFormFact(rows[k]) /\ rows[k].checklist_item = NULL
  /\ \E k \in factsOf(2, Len(rows)) :
       applicationFormFact(rows[k]) /\ rows[k].checklist_name = NULL
  /\ \A u \in {1, 2} : \A k \in factsOf(u, Len(rows)) : applicationFormFact(rows[k])
  /\ \A u \in {1, 2} : result[u] = [stage |-> Some("Application"), substage |-> Some(14)]

\* A fact that is nothing but the named item, requested and not completed.
requestedAssessmentFact(r) ==
  /\ r.checklist_item = Some(FAIRMONT_ADMISSIONS_ASSESSMENT)
  /\ jsTruthy(r.date_requested)
  /\ r.date_completed = NULL /\ r.step_status = NULL
  /\ r = [BlankRow(r.user_id) EXCEPT
            !.checklist_item = r.checklist_item,
            !.date_requested = r.date_requested]

matchingEntries(d, target) ==
  { k \in 1..Len(d.itemStatus) :
      \/ d.itemStatus[k].name = target
      \/ includes(d.itemStatus[k].name, target)
      \/ includes(target, d.itemStatus[k].name) }

minOf(K) == CHOOSE k \in K : \A j \in K : k <= j

\* The status attributed to a target: that of the first matching entry.
firstMatchStatus(d, target) ==
  IF matchingEntries(d, target) = {} THEN "none"
  ELSE d.itemStatus[minOf(matchingEntries(d, target))].status

\* Rules 20, 18, 17 and 15 decided from the attributed status, the other
\* rules as they stand.
ruleHoldsByFirstMatch(n, d) ==
  CASE n = 20 -> firstMatchStatus(d, FAIRMONT_ADMISSIONS_RE_ASSESSMENT) = "complete"
    [] n = 18 -> firstMatchStatus(d, FAIRMONT_ADMISSIONS_RE_ASSESSMENT) = "requested"
    [] n = 17 -> firstMatchStatus(d, FAIRMONT_ADMISSIONS_ASSESSMENT) = "complete"
    [] n = 15 -> firstMatchStatus(d, FAIRMONT_ADMISSIONS_ASSESSMENT) = "requested"
    [] OTHER  -> ruleHolds(n, d)

substageByFirstMatch(d) ==
  IF \E k \in 1..Len(SubstageOrder) : ruleHoldsByFirstMatch(SubstageOrder[k], d)
  THEN Some(SubstageOrder[minOf({ k \in 1..Len(SubstageOrder) :
                                    ruleHoldsByFirstMatch(SubstageOrder[k], d) })])
  ELSE NULL

assessmentComplete(d) ==
  \E e \in 1..Len(d.itemStatus) :
    d.itemStatus[e] = [name |-> FAIRMONT_ADMISSIONS_ASSESSMENT, status |-> "complete"]

\* C23: a person whose item_status has the entry "Fairmont Admissions
\* Assessment" with status complete gets a substage of at least 17, never
\* 14, 15, 16 or null, whatever the other entries and their order.
C23_CompletedAssessmentAtLeast17 ==
  pc = "done" =>
    \A u \in DOMAIN result :
      assessmentComplete(byUser[u])
        => result[u].substage # NULL /\ result[u].substage[1] >= 17

\* C24: the classifiers agree on the terminal states of every view: the
\* stage is Closed Lost exactly when the substage is 28, and Closed Won
\* exactly when the substage is 27.
C24_TerminalStatesAgree ==
  classified =>
    /\ (verdict[1].stage = Some("Closed Lost")) <=> (verdict[1].substage = Some(28))
    /\ (verdict[1].stage = Some("Closed Won")) <=> (verdict[1].substage = Some(27))

\* An enrolled view that also satisfies rules 26 and 25 and the guard of
\* Contract Sent.
C24_Witness ==
  /\ classified
  /\ deal.school_decision = Some("Waitlist w/ Deposit Paid")
  /\ deal.contract_return_date # NULL
  /\ jsTruthy(deal.contract_publish_date)
  /\ verdict[1].stage = Some("Closed Won")
  /\ verdict[1].substage = Some(27)

\* The facts of person u among rs, in the order given.
factsOfPerson(rs, u) ==
  LET isOfU(r) == ~ unattributable(r) /\ personIdOf(r) = u
  IN  SelectSeq(rs, isOfU)

\* C25: at every point of the fold, the view of every person equals the
\* view obtained by aggregating that person's facts alone.
C25_PersonsIsolated ==
  \A u \in DOMAIN byUser :
    LET alone == aggregateChecklistRowsByUser(factsOfPerson(SubSeq(rows, 1, i), u))
    IN  DOMAIN alone = {u} /\ byUser[u] = alone[u]

\* Facts of two persons interleaved, with values that would show in the
\* other's view: person 1 inactive, person 2 denied.
C25_Witness ==
  /\ i = 3 /\ Len(rows) = 3
  /\ uidOf(1) = Some(1) /\ uidOf(2) = Some(2) /\ uidOf(3) = Some(1)
  /\ truthy(rows[1].inactive)
  /\ rows[2].school_decision = Some("Denied")
  /\ rows[3].candidate_decision # NULL
  /\ ~ byUser[2].inactive
  /\ byUser[1].school_decision = NULL
  /\ byUser[2].candidate_decision = NULL

\* View e after one more row is not behind view d.
notBehind(d, e) ==
  /\ d.inactive => e.inactive
  /\ d.testNoShow => e.testNoShow
  /\ \A key \in DOMAIN d.checklistsCompleted :
       has(d.checklistsCompleted, key) => has(e.checklistsCompleted, key)
  /\ Len(e.itemStatus) >= Len(d.itemStatus)
  /\ \A k \in 1..Len(d.itemStatus) :
       /\ e.itemStatus[k].name = d.itemStatus[k].name
       /\ d.itemStatus[k].status = "complete" => e.itemStatus[k].status = "complete"
  /\ \A f \in LastNonNullFields : d[f] # NULL => e[f] # NULL

foldIsMonotone ==
  \A u \in DOMAIN byUser : u \in DOMAIN byUser' /\ notBehind(byUser[u], byUser'[u])

\* C26: folding one more row never takes a view back: inactive and
\* testNoShow stay true, no checklistsCompleted key is lost, no itemStatus
\* entry is removed, moved or taken from complete to requested, and no
\* non-null decision or contract field becomes null.
C26_FoldMonotone == [][foldIsMonotone]_vars

\* A person with a completed item and a contract return date, then inactive,
\* after a later row that only requests the same item and carries no
\* return date and no inactive value.
C26_Witness ==
  /\ i = 3 /\ Len(rows) = 3
  /\ \A k \in 1..3 : uidOf(k) = Some(1)
  /\ completeFact(rows[1]) /\ rows[1].contract_return_date # NULL
  /\ normalize(rows[1].checklist_item) # ""
  /\ truthy(rows[2].inactive)
  /\ requestedOnly(rows[3])
  /\ normalize(rows[3].checklist_item) = normalize(rows[1].checklist_item)
  /\ rows[3].contract_return_date = NULL /\ rows[3].inactive = NULL
  /\ byUser[1].inactive
  /\ byUser[1].contract_return_date = rows[1].contract_return_date
  /\ byUser[1].itemStatus[1].status = "complete"

(***************************************************************************)
(* Properties of the pollers                                               *)
(***************************************************************************)
inBody(p) == polls[p].pc = "running"

\* C27: two executions of the poll body overlap only if the .running file
\* of the earlier one was stale when the later one started, that is, if
\* their starts are at least RUNNING_STALE_MS apart.
C27_NoOverlapUnlessStale ==
  \A p, q \in Polls :
    (p # q /\ inBody(p) /\ inBody(q) /\ polls[p].started_at <= polls[q].started_at)
      => polls[q].started_at - polls[p].started_at >= RUNNING_STALE_MS

\* C28: at most one refresh request is in flight at any time; a caller that
\* arrives while a request is in flight awaits that request and receives
\* its outcome; refreshInProgress is set exactly while a request is in
\* flight, so it is cleared when the request ends, fulfilled or rejected.
C28_SingleFlight ==
  /\ Cardinality(inFlightRefreshes) <= 1
  /\ \A c \in Callers :
       callers[c].during # 0 =>
         /\ callers[c].promise = callers[c].during
         /\ callers[c].pc = "returned" =>
              refreshes[callers[c].during].state = "fulfilled" /\ callers[c].got = callers[c].during
         /\ callers[c].pc = "threw" => refreshes[callers[c].during].state = "rejected"
         /\ callers[c].pc = "awaiting" \/ callers[c].during \notin inFlightRefreshes
  /\ \A r \in 1..Len(refreshes) :
       (refreshInProgress = Some(r)) <=> (r \in inFlightRefreshes)
  /\ refreshInProgress # NULL => refreshInProgress[1] \in inFlightRefreshes

\* After a first refresh was rejected, a second one is in flight and all
\* three callers await it.
C28_Witness ==
  /\ Len(refreshes) = 2
  /\ refreshes[1].state = "rejected"
  /\ refreshes[2].state = "body"
  /\ refreshInProgress = Some(2)
  /\ \A c \in Callers : callers[c].pc = "awaiting" /\ callers[c].promise = 2
  /\ \E c \in Callers : callers[c].during = 2

storing == { w \in Workers : workers[w].pc = "storing" }

\* C29: the number of store operations running inside withLimit never
\* exceeds MAX_CONCURRENT_STORES, under every interleaving of calls,
\* wake-ups and completions, failed completions included.
C29_StoreLimit ==
  /\ Cardinality(storing) <= MAX_CONCURRENT_STORES
  /\ inFlight = Cardinality(storing)

\* The limit is reached after a failed store, while a woken waiter has not
\* run yet and another caller waits in the queue.
C29_Witness ==
  /\ Cardinality(storing) = MAX_CONCURRENT_STORES
  /\ \E w \in Workers : workers[w].pc = "woken"
  /\ \E w \in Workers : workers[w].failed
  /\ waitQueue # <<>>

\* Positions in the request log of the requests for the page of cursor a.
requestsOf(a) == { k \in DOMAIN requests : requests[k].after = a }

requestedPages == { requests[k].after : k \in DOMAIN requests }

allRateLimited(a) ==
  /\ Cardinality(requestsOf(a)) = MAX_429_RETRIES + 1
  /\ \A k \in requestsOf(a) : requests[k].status = 429

threw(error) == outcome = Some([kind |-> "threw", error |-> error])

hasReturned == outcome # NULL /\ outcome[1].kind = "returned"

\* At most three requests are sent for one page.
atMostThreeRequests ==
  /\ MAX_429_RETRIES + 1 = 3
  /\ \A a \in requestedPages : Cardinality(requestsOf(a)) <= 3

\* Three answers 429 for a page: after the last wait the rate-limit error is
\* thrown, nothing is returned and no further page is requested.
rateLimitThrows ==
  /\ \A a \in requestedPages :
       allRateLimited(a) =>
         /\ fpc \in {"sleep429", "threw"}
         /\ fpc = "threw" => threw("Rate limited")
         /\ ~hasReturned
         /\ \A b \in requestedPages : b <= a
  /\ threw("Rate limited") => allRateLimited(after)

\* An answer with another status is the last request for its page, and it is
\* the response that is handled: read as a page when ok, thrown when not.
otherStatusHandled ==
  \A k \in DOMAIN requests :
    requests[k].status \in Statuses \ {429} =>
      /\ \A j \in requestsOf(requests[k].after) : j <= k
      /\ IF isOk(requests[k].status)
         THEN \/ k = Len(requests) /\ fpc = "awaitJson"
              \/ \E p \in DOMAIN pagesRead : pagesRead[p].after = requests[k].after
         ELSE /\ k = Len(requests)
              /\ fpc \in {"awaitText", "threw"}
              /\ fpc = "threw" => threw("HubSpot search failed")

endsPaging(page) == page.nextAfter # "cursor" \/ page.results = 0

\* A page without next cursor or without results is the last one, and the
\* deals are returned right after it; any other page is followed by the next.
pagingEnds ==
  /\ \A p \in DOMAIN pagesRead :
       IF endsPaging(pagesRead[p])
       THEN /\ p = Len(pagesRead)
            /\ hasReturned
            /\ requests[Len(requests)].after = pagesRead[p].after
       ELSE /\ after > pagesRead[p].after
            /\ \/ fpc = "pageSleep"
               \/ (pagesRead[p].after + 1) \in requestedPages
  /\ hasReturned => pagesRead # <<>> /\ endsPaging(pagesRead[Len(pagesRead)])

\* C30: fetchDealsSearch sends at most MAX_429_RETRIES + 1 = 3 requests for
\* one page; three answers 429 make it throw the rate-limit error and return
\* no deals; an answer with another status ends the retries and is the
\* response handled; paging ends at a response without next cursor or
\* without results.
C30_RetryAndPaging ==
  /\ atMostThreeRequests
  /\ rateLimitThrows
  /\ otherStatusHandled
  /\ pagingEnds

\* The second page is answered 429 three times after a first page that was
\* answered 429 and then 200 and delivered deals: the error is thrown.
C30_Witness ==
  /\ threw("Rate limited")
  /\ after = 1
  /\ allRateLimited(1)
  /\ all # <<>>
  /\ Len(requests) = 5
  /\ requests[1].status = 429
  /\ requests[2].status = 200

====
